---------------------------- MODULE Spec2Model ----------------------------
(***************************************************************************)
(* A model of the BudgetsApp (cs50final.py): the category registry held by *)
(* BudgetManager, the keyword classifier, the Ledger held by               *)
(* TransactionsManager, the import of a bank CSV file and the aggregation  *)
(* done by FinancialController.                                            *)
(*                                                                         *)
(* Strings are TLA+ strings; Python's str operations (lower, split, join,  *)
(* in, endswith) are operators over them.  Monetary amounts are integers   *)
(* in cents (the code holds floats rounded to two decimals).               *)
(***************************************************************************)
EXTENDS Integers, Sequences, FiniteSets, TLC

VARIABLES
    budget_categories,         \* BudgetManager.budget_categories, in dict insertion order
    income_by_category,        \* BudgetManager.income_by_category
    expenditures_by_category,  \* BudgetManager.expenditures_by_category
    transactions,              \* TransactionsManager.transactions: id -> Transaction
    source_file,               \* TransactionsManager.source_file
    transactions_csv,          \* content of last_uploaded_transactions.csv
    budgets_csv,               \* content of current_budgets.csv
    running,                   \* FALSE once an exception has left main()
    op,                        \* the last operation and its input
    ret                        \* what it returned (or the exception it raised)

vars == <<budget_categories, income_by_category, expenditures_by_category,
          transactions, source_file, transactions_csv, budgets_csv,
          running, op, ret>>

-----------------------------------------------------------------------------
(* Python str operations *)

Char(s, i) == SubSeq(s, i, i)

LowerCase ==
    [c \in {"A", "B", "C", "D", "E", "F", "G", "H", "I", "J", "K", "L", "M", "N",
            "O", "P", "Q", "R", "S", "T", "U", "V", "W", "X", "Y", "Z"} |->
        CASE c = "A" -> "a" [] c = "B" -> "b" [] c = "C" -> "c" [] c = "D" -> "d"
          [] c = "E" -> "e" [] c = "F" -> "f" [] c = "G" -> "g" [] c = "H" -> "h"
          [] c = "I" -> "i" [] c = "J" -> "j" [] c = "K" -> "k" [] c = "L" -> "l"
          [] c = "M" -> "m" [] c = "N" -> "n" [] c = "O" -> "o" [] c = "P" -> "p"
          [] c = "Q" -> "q" [] c = "R" -> "r" [] c = "S" -> "s" [] c = "T" -> "t"
          [] c = "U" -> "u" [] c = "V" -> "v" [] c = "W" -> "w" [] c = "X" -> "x"
          [] c = "Y" -> "y" [] c = "Z" -> "z"]

LowerChar(c) == IF c \in DOMAIN LowerCase THEN LowerCase[c] ELSE c

\* the characters of s from position i on, in lower case
RECURSIVE LowerFrom(_, _)
LowerFrom(s, i) ==
    IF i > Len(s) THEN "" ELSE LowerChar(Char(s, i)) \o LowerFrom(s, i + 1)

\* str.lower()
Lower(s) == LowerFrom(s, 1)

\* `sub in s`: sub occurs in s as a substring (the empty string occurs in every string)
In(sub, s) ==
    \E i \in 1..(Len(s) - Len(sub) + 1) : SubSeq(s, i, i + Len(sub) - 1) = sub

\* s.endswith(suffix)
EndsWith(s, suffix) ==
    /\ Len(s) >= Len(suffix)
    /\ SubSeq(s, Len(s) - Len(suffix) + 1, Len(s)) = suffix

\* the index of the first occurrence of the character sep in s, 0 when there is none
RECURSIVE Find(_, _, _)
Find(s, sep, i) ==
    IF i > Len(s) THEN 0
    ELSE IF Char(s, i) = sep THEN i
    ELSE Find(s, sep, i + 1)

\* s.split(sep): ''.split('|') is [''], 'a|b'.split('|') is ['a', 'b']
RECURSIVE Split(_, _)
Split(s, sep) ==
    LET i == Find(s, sep, 1) IN
    IF i = 0 THEN <<s>>
    ELSE <<SubSeq(s, 1, i - 1)>> \o Split(SubSeq(s, i + 1, Len(s)), sep)

\* sep.join(parts)
RECURSIVE Join(_, _)
Join(parts, sep) ==
    IF parts = <<>> THEN ""
    ELSE IF Len(parts) = 1 THEN parts[1]
    ELSE parts[1] \o sep \o Join(Tail(parts), sep)

-----------------------------------------------------------------------------
(* Python conversions between strings and numbers or dates.  A conversion  *)
(* that raises ValueError yields [ok |-> FALSE].                           *)

Digits == <<"0", "1", "2", "3", "4", "5", "6", "7", "8", "9">>

IsDigit(c) == c \in {"0", "1", "2", "3", "4", "5", "6", "7", "8", "9"}

DigitValue(c) ==
    CASE c = "0" -> 0 [] c = "1" -> 1 [] c = "2" -> 2 [] c = "3" -> 3 [] c = "4" -> 4
      [] c = "5" -> 5 [] c = "6" -> 6 [] c = "7" -> 7 [] c = "8" -> 8 [] c = "9" -> 9

AllDigits(s) == Len(s) > 0 /\ \A i \in 1..Len(s) : IsDigit(Char(s, i))

\* the value of a string of decimal digits
RECURSIVE DigitsValue(_)
DigitsValue(s) ==
    IF s = "" THEN 0
    ELSE 10 * DigitsValue(SubSeq(s, 1, Len(s) - 1)) + DigitValue(Char(s, Len(s)))

\* str(n) for an integer n
RECURSIVE NatToStr(_)
NatToStr(n) ==
    IF n < 10 THEN Digits[n + 1] ELSE NatToStr(n \div 10) \o Digits[(n % 10) + 1]

IntToStr(n) == IF n < 0 THEN "-" \o NatToStr(-n) ELSE NatToStr(n)

\* the sign that the first character of a number gives it
SignOf(s) == IF Len(s) > 0 /\ Char(s, 1) = "-" THEN -1 ELSE 1

\* a number without its leading sign
Unsigned(s) == IF Len(s) > 0 /\ Char(s, 1) \in {"-", "+"} THEN SubSeq(s, 2, Len(s)) ELSE s

IntOfDigits(sign, body) ==
    IF AllDigits(body) THEN [ok |-> TRUE, value |-> sign * DigitsValue(body)]
    ELSE [ok |-> FALSE, value |-> 0]

\* int(s), for s an optional sign followed by decimal digits; anything else
\* (letters, an empty string, a decimal point) raises ValueError
ParseInt(s) == IntOfDigits(SignOf(s), Unsigned(s))

\* the digits before and after the decimal point at position point (0: no point)
WholePart(body, point) == IF point = 0 THEN body ELSE SubSeq(body, 1, point - 1)

FractionPart(body, point) ==
    IF point = 0 THEN "" ELSE SubSeq(body, point + 1, Len(body))

AmountOfDigits(sign, whole, frac) ==
    IF /\ whole = "" \/ AllDigits(whole)
       /\ frac = "" \/ AllDigits(frac)
       /\ Len(frac) <= 2
       /\ whole # "" \/ frac # ""
    THEN [ok |-> TRUE,
          value |-> sign * (100 * DigitsValue(whole)
                            + (IF Len(frac) = 1 THEN 10 ELSE 1) * DigitsValue(frac))]
    ELSE [ok |-> FALSE, value |-> 0]

AmountOfBody(sign, body, point) ==
    AmountOfDigits(sign, WholePart(body, point), FractionPart(body, point))

\* float('nan'): a value apart from every amount in cents, neither less than 0
\* nor equal to 0 (`nan < 0` and `not nan` are both False)
NaN == 2147483647

\* round(float(s), 2), in cents, for s written as [sign] digits [. digits] with at
\* most two digits after the point (values on which the rounding is exact), and
\* nan for s written as [sign] 'nan' in any case; a string that is no such number
\* (other letters, a currency symbol, '') raises ValueError
ParseAmount(s) ==
    IF Lower(Unsigned(s)) = "nan" THEN [ok |-> TRUE, value |-> NaN]
    ELSE AmountOfBody(SignOf(s), Unsigned(s), Find(Unsigned(s), ".", 1))

\* f"{amount:.2f}"
FormatAmount(cents) ==
    IF cents = NaN THEN "nan" ELSE
    LET a == IF cents < 0 THEN -cents ELSE cents
        f == a % 100
    IN (IF cents < 0 THEN "-" ELSE "") \o NatToStr(a \div 100) \o "."
       \o (IF f < 10 THEN "0" ELSE "") \o NatToStr(f)

IsLeapYear(y) == (y % 4 = 0 /\ y % 100 # 0) \/ y % 400 = 0

DaysInMonth(y, m) ==
    IF m = 2 THEN (IF IsLeapYear(y) THEN 29 ELSE 28)
    ELSE IF m \in {4, 6, 9, 11} THEN 30 ELSE 31

\* the date of three fields year, month, day of a strptime format: %Y is four
\* digits, %m and %d one or two; the date must exist
NoDate == [ok |-> FALSE, value |-> <<0, 0, 0>>]

\* the date of a year, a month and a day, when there is such a date
DateOf(y, m, d) ==
    IF y >= 1 /\ m \in 1..12 /\ d >= 1 /\ d <= DaysInMonth(y, m)
    THEN [ok |-> TRUE, value |-> <<y, m, d>>]
    ELSE NoDate

DateOfFields(year, month, day) ==
    IF /\ AllDigits(year) /\ Len(year) = 4
       /\ AllDigits(month) /\ Len(month) <= 2
       /\ AllDigits(day) /\ Len(day) <= 2
    THEN DateOf(DigitsValue(year), DigitsValue(month), DigitsValue(day))
    ELSE NoDate

DateOfMDY(fields) ==
    IF Len(fields) = 3 THEN DateOfFields(fields[3], fields[1], fields[2]) ELSE NoDate

DateOfYMD(fields) ==
    IF Len(fields) = 3 THEN DateOfFields(fields[1], fields[2], fields[3]) ELSE NoDate

\* datetime.strptime(s, '%m/%d/%Y')
ParseDateMDY(s) == DateOfMDY(Split(s, "/"))

\* datetime.strptime(s, '%Y-%m-%d')
ParseDateISO(s) == DateOfYMD(Split(s, "-"))

PadZeros(t, width) ==
    IF Len(t) >= width THEN t ELSE SubSeq("0000", 1, width - Len(t)) \o t

ZeroPad(n, width) == PadZeros(NatToStr(n), width)

\* date.strftime('%Y-%m-%d'), for the years from 1000 on that the batches use
FormatDateISO(date) ==
    ZeroPad(date[1], 4) \o "-" \o ZeroPad(date[2], 2) \o "-" \o ZeroPad(date[3], 2)

-----------------------------------------------------------------------------
(* class BudgetCategory *)

\* what the numeric setters refuse: a conversion that raised, or a negative value
NotANumberOrNegative(parsed) == ~parsed.ok \/ parsed.value < 0

\* BudgetCategory(...): its setters type the string arguments.  The keywords
\* setter splits the keyword string on '|'; option_num and search_order become
\* integers and amt_budgeted a rounded amount.
BudgetCategory(general_classification, budget_category, keywords, option_num, amt_budgeted, search_order) ==
    [general_classification |-> general_classification,
     budget_category        |-> budget_category,
     keywords               |-> Split(keywords, "|"),
     option_num             |-> ParseInt(option_num).value,
     amt_budgeted           |-> ParseAmount(amt_budgeted).value,
     search_order           |-> ParseInt(search_order).value]

\* the setters of option_num, amt_budgeted and search_order raise ValueError on
\* a value that is not a number or is negative
BudgetCategoryRaises(option_num, amt_budgeted, search_order) ==
    \/ NotANumberOrNegative(ParseInt(option_num))
    \/ NotANumberOrNegative(ParseAmount(amt_budgeted))
    \/ NotANumberOrNegative(ParseInt(search_order))

\* BudgetManager.initialize_default_budget_categories: the seed list
category_objects == <<
    BudgetCategory("Income", "Paycheck", "payroll", "1", "0", "1"),
    BudgetCategory("Income", "Other Income", "cashout", "2", "0", "2"),
    BudgetCategory("Monthly Household Bills", "Mortgage & Rent",
                   "apartments|mortgage", "3", "0", "3"),
    BudgetCategory("Monthly Household Bills", "Utilities",
                   "utility|gas|electric|water|smud|pge", "4", "0", "4"),
    BudgetCategory("Monthly Household Bills", "Phone",
                   "verizon|metropcs|mobile", "5", "0", "5"),
    BudgetCategory("Monthly Household Bills", "Internet, Cable, Satellite",
                   "internet|comcast|xfinity|at&t|cable|satellite", "6", "0", "6"),
    BudgetCategory("Food & Dining", "Groceries",
                   "safeway|kroger|aldi|publix|meijer|piggly|albertson|costco|trader joe|co-op|food|market|grocery", "7", "0", "7"),
    BudgetCategory("Food & Dining", "Eating Out",
                   "mcdonald|starbuck|peets|chipotle|subway|panera|dunkin|taco|pizza|wings|burger|steak|coffee|yogurt", "8", "0", "8"),
    BudgetCategory("Travel & Transport", "Car (Payment, Gas, Repair, Ride Share, Tolls, Parking)",
                   "dealership|auto|uber|lyft|toll|parking|shell|chevron|exxonmobil|bp|gas", "9", "0", "9"),
    BudgetCategory("Travel & Transport", "Public Transit",
                   "transit| rt ", "10", "0", "10"),
    BudgetCategory("Travel & Transport", "Trips & Travel",
                   "hotel|motel|airline", "11", "0", "14"),
    BudgetCategory("Health & Fitness", "Medical",
                   "hospital|doctor|kaiser|medical|insurance|wellness|pharm|rx", "12", "0", "17"),
    BudgetCategory("Health & Fitness", "Gym & Other Fitness",
                   "fitness|gym|pilates|dance|running", "13", "0", "13"),
    BudgetCategory("Financial", "Pay Loans & Credit Cards",
                   "bank|loan|capital one|merrick|hsbc|american express|visa|mastercard|student ln|synchrony| cc ", "14", "0", "11"),
    BudgetCategory("Shopping", "Home Improvement", "lowe|home|hardware", "15", "0", "15"),
    BudgetCategory("Shopping", "Other Shopping",
                   "amazon|amzn|ebay|macy|nordstrom|target|walmart|outlet|google", "16", "0", "999"),
    BudgetCategory("Other", "Self Care",
                   "spa | hair|nail|salon|barber|massage|beauty", "17", "0", "17"),
    BudgetCategory("Other", "Pet Care",
                   "chewy|animal|vet|kitty|cat |dog|hound|pup", "18", "0", "12"),
    BudgetCategory("Other", "Laundry", "csc", "19", "0", "19"),
    BudgetCategory("Other", "Entertainment",
                   "netflix|hulu|disney|video|spotify|audible|cinemark|amc|theater|theatre|playstation|nintendo|xbox|steam|nexus mods|game|subscription|youtube|channel|television|tv",
                   "20", "0", "20") >>

\* the names (dict keys) of a registry
CategoryNames(categories) ==
    {categories[i].budget_category : i \in 1..Len(categories)}

-----------------------------------------------------------------------------
(* BudgetManager.categorize_transaction *)

\* the categories left in dict order, as if the sort were missing
UnsortedCategories(categories) == categories

\* a category put before those of equal search_order, as if the sort were not
\* stable
RECURSIVE InsertBeforeEqual(_, _)
InsertBeforeEqual(category, sorted) ==
    IF sorted = <<>> THEN <<category>>
    ELSE IF sorted[Len(sorted)].search_order < category.search_order
         THEN Append(sorted, category)
         ELSE Append(InsertBeforeEqual(category, SubSeq(sorted, 1, Len(sorted) - 1)),
                     sorted[Len(sorted)])

\* a category put into a list sorted by search_order, after the categories of
\* smaller or equal search_order
RECURSIVE InsertBySearchOrder(_, _)
InsertBySearchOrder(category, sorted) ==
    IF sorted = <<>> THEN <<category>>
    ELSE IF sorted[Len(sorted)].search_order <= category.search_order
         THEN Append(sorted, category)
         ELSE Append(InsertBySearchOrder(category, SubSeq(sorted, 1, Len(sorted) - 1)),
                     sorted[Len(sorted)])

\* the categories by descending search_order, as if sorted() were called with
\* reverse=True
RECURSIVE SortedDescending(_)
SortedDescending(categories) ==
    IF categories = <<>> THEN <<>>
    ELSE LET first == CHOOSE i \in 1..Len(categories) :
                         \A j \in 1..Len(categories) :
                            \/ categories[j].search_order < categories[i].search_order
                            \/ (categories[j].search_order = categories[i].search_order
                                /\ i <= j)
         IN <<categories[first]>>
            \o SortedDescending(SubSeq(categories, 1, first - 1)
                                \o SubSeq(categories, first + 1, Len(categories)))

\* sorted(categories, key=lambda x: x.search_order): a stable sort, so categories
\* of equal search_order keep their dict order
RECURSIVE SortedBySearchOrder(_)
SortedBySearchOrder(categories) ==
    IF categories = <<>> THEN <<>>
    ELSE InsertBySearchOrder(categories[Len(categories)],
             SortedBySearchOrder(SubSeq(categories, 1, Len(categories) - 1)))

\* the keyword compared as stored, as if keyword.lower() were missing
KeywordMatchesAsStored(keyword, lowered) == In(keyword, lowered)

\* `keyword.lower() in description.lower()`, given description.lower()
KeywordMatches(keyword, lowered) == In(Lower(keyword), lowered)

\* only the first keyword of the list tried, as if the inner loop stopped early
FirstKeywordMatches(category, description) ==
    KeywordMatches(category.keywords[1], Lower(description))

\* the inner loop: some keyword of the category matches
CategoryMatches(category, description) ==
    LET lowered == Lower(description)
    IN \E k \in 1..Len(category.keywords) :
          KeywordMatches(category.keywords[k], lowered)

\* the outer loop over the sorted categories: the first one that matches wins
RECURSIVE FirstMatch(_, _)
FirstMatch(sorted_categories, description) ==
    IF sorted_categories = <<>> THEN "Uncategorized"
    ELSE IF CategoryMatches(Head(sorted_categories), description)
         THEN Head(sorted_categories).budget_category
         ELSE FirstMatch(Tail(sorted_categories), description)

Categorize(categories, description) ==
    FirstMatch(SortedBySearchOrder(categories), description)

categorize_transaction(description) == Categorize(budget_categories, description)

-----------------------------------------------------------------------------
(* class Transaction *)

\* Transaction(...): its setters type the string arguments
Transaction(transaction_num, transaction_date, amount, description, category, source) ==
    [source_file      |-> source,
     transaction_num  |-> ParseInt(transaction_num).value,
     transaction_date |-> ParseDateISO(transaction_date).value,
     amount           |-> ParseAmount(amount).value,
     description      |-> description,
     category         |-> category]

\* the setters of source_file, transaction_num, transaction_date and amount
\* raise ValueError on a name that is no CSV file, a negative or non-integer
\* number, a string that is no date, a string that is no amount
TransactionRaises(transaction_num, transaction_date, amount, source) ==
    \/ ~EndsWith(source, ".csv")
    \/ NotANumberOrNegative(ParseInt(transaction_num))
    \/ ~ParseDateISO(transaction_date).ok
    \/ ~ParseAmount(amount).ok

-----------------------------------------------------------------------------
(* BudgetManager.__init__ and TransactionsManager.__init__ *)

IsIncome(category) == category.general_classification = "Income"

\* the two totals dictionaries BudgetManager.__init__ builds from the seed list
IncomeNames(categories) ==
    {categories[i].budget_category : i \in {j \in 1..Len(categories) : IsIncome(categories[j])}}

ExpenditureNames(categories) ==
    {categories[i].budget_category : i \in {j \in 1..Len(categories) : ~IsIncome(categories[j])}}

InitialIncomeByCategory == [name \in IncomeNames(category_objects) |-> 0]

InitialExpendituresByCategory ==
    [name \in {"Uncategorized"} \cup ExpenditureNames(category_objects) |-> 0]

\* the dict of one transaction, keyed by its transaction_num
DictOf(transaction) == [id \in {transaction.transaction_num} |-> transaction]

\* TransactionsManager.make_transactions_dictionary with its default argument
make_transactions_dictionary ==
    DictOf(Transaction("0", "1900-01-01", "0", "Sample", "Uncategorized", "sample.csv"))

\* a stored CSV file that does not exist yet
NoFile == [exists |-> FALSE, rows |-> <<>>]

NoOp == [name |-> "__init__", arg1 |-> "", arg2 |-> ""]

-----------------------------------------------------------------------------
(* The classifier as a function of the registry and the description:       *)
(* SpecClassify starts from every registry of a bounded family and applies *)
(* categorize_transaction to every description of a bounded family.        *)

MaxCategories == 2
MaxSearchOrder == 1

RegistryNames == <<"Groceries", "Other Shopping", "Paycheck", "Pet Care">>

KeywordStrings == {"", "safeway|kroger", "kroger|safeway", "AMZN|Safeway"}

Descriptions == {"", "SAFEWAY #12", "Amzn safeway", "payroll"}

RegistryCategories ==
    {BudgetCategory(IF RegistryNames[n] = "Paycheck" THEN "Income" ELSE "Shopping",
                    RegistryNames[n], kw, IntToStr(n), "0", IntToStr(so)) :
        n \in 1..MaxCategories, kw \in KeywordStrings, so \in 0..MaxSearchOrder}

\* every dict of at most MaxCategories categories, in every insertion order
Registries ==
    {r \in UNION {[1..n -> RegistryCategories] : n \in 0..MaxCategories} :
        \A i, j \in 1..Len(r) : i # j => r[i].budget_category # r[j].budget_category}

InitClassify ==
    /\ budget_categories \in Registries
    /\ income_by_category = InitialIncomeByCategory
    /\ expenditures_by_category = InitialExpendituresByCategory
    /\ transactions = make_transactions_dictionary
    /\ source_file = "sample.csv"
    /\ transactions_csv = NoFile
    /\ budgets_csv = NoFile
    /\ running = TRUE
    /\ op = NoOp
    /\ ret = "None"

\* a call that sorts the registry itself, as if the dict were rebuilt in sorted
\* order instead of sorted() building a list
CategorizeTransactionSortingRegistry(description) ==
    /\ op' = [name |-> "categorize_transaction", arg1 |-> description, arg2 |-> ""]
    /\ ret' = categorize_transaction(description)
    /\ budget_categories' = SortedBySearchOrder(budget_categories)
    /\ UNCHANGED <<income_by_category, expenditures_by_category,
                   transactions, source_file, transactions_csv, budgets_csv, running>>

\* a call categorize_transaction(description)
CategorizeTransaction(description) ==
    /\ op' = [name |-> "categorize_transaction", arg1 |-> description, arg2 |-> ""]
    /\ ret' = categorize_transaction(description)
    /\ UNCHANGED <<budget_categories, income_by_category, expenditures_by_category,
                   transactions, source_file, transactions_csv, budgets_csv, running>>

NextClassify == \E description \in Descriptions : CategorizeTransaction(description)

SpecClassify == InitClassify /\ [][NextClassify]_vars

-----------------------------------------------------------------------------
(* The classifier on the seed registry: SpecSeed starts from the seed in    *)
(* its dict order, and in the order with Medical and Self Care (the two     *)
(* categories of search_order 17) exchanged, and applies                    *)
(* categorize_transaction to every description made of two words of a       *)
(* bounded family and to the examples of the BudgetCategory docstring.      *)

SeedWords == {"animal", "hospital", "grocery", "outlet", "amazon", "video", "salon", "zzz"}

SeedDescriptions ==
    {first \o " " \o second : first, second \in SeedWords}
        \cup {"amazon prime video", "Animal Hospital"}

\* the position in the dict of the category named name
PositionOf(categories, name) ==
    CHOOSE i \in 1..Len(categories) : categories[i].budget_category = name

\* the dict with the categories at positions i and j exchanged
Exchanged(categories, i, j) ==
    [k \in 1..Len(categories) |->
        IF k = i THEN categories[j] ELSE IF k = j THEN categories[i] ELSE categories[k]]

SeedOrders ==
    {category_objects,
     Exchanged(category_objects, PositionOf(category_objects, "Medical"),
               PositionOf(category_objects, "Self Care"))}

InitSeed ==
    /\ budget_categories \in SeedOrders
    /\ income_by_category = InitialIncomeByCategory
    /\ expenditures_by_category = InitialExpendituresByCategory
    /\ transactions = make_transactions_dictionary
    /\ source_file = "sample.csv"
    /\ transactions_csv = NoFile
    /\ budgets_csv = NoFile
    /\ running = TRUE
    /\ op = NoOp
    /\ ret = "None"

NextSeed == \E description \in SeedDescriptions : CategorizeTransaction(description)

SpecSeed == InitSeed /\ [][NextSeed]_vars

-----------------------------------------------------------------------------
(* FinancialController.calculate_totals_by_category *)

\* the totals left as they were, as if the two dictionaries were not rebuilt
KeptTotals(totals) == totals

\* both dictionaries rebuilt with the same keys and every total 0.0
ResetTotals(totals) ==
    [income       |-> [name \in DOMAIN totals.income |-> 0],
     expenditures |-> [name \in DOMAIN totals.expenditures |-> 0]]

\* a transaction of a category that has no total of its own left out, as if the
\* final else were missing
AddKnownTransaction(totals, transaction) ==
    IF transaction.category \in DOMAIN totals.income
    THEN [totals EXCEPT !.income[transaction.category] = @ + transaction.amount]
    ELSE IF transaction.category \in DOMAIN totals.expenditures
    THEN [totals EXCEPT !.expenditures[transaction.category] = @ - transaction.amount]
    ELSE totals

\* an expenditure added with the sign of the bank file, as if -= were +=
AddTransactionUnflipped(totals, transaction) ==
    IF transaction.category \in DOMAIN totals.income
    THEN [totals EXCEPT !.income[transaction.category] = @ + transaction.amount]
    ELSE IF transaction.category \in DOMAIN totals.expenditures
    THEN [totals EXCEPT !.expenditures[transaction.category] = @ + transaction.amount]
    ELSE [totals EXCEPT !.expenditures["Uncategorized"] = @ - transaction.amount]

\* an income transaction treated like any other, as if the first branch were missing
AddTransactionAsExpenditure(totals, transaction) ==
    IF transaction.category \in DOMAIN totals.expenditures
    THEN [totals EXCEPT !.expenditures[transaction.category] = @ - transaction.amount]
    ELSE [totals EXCEPT !.expenditures["Uncategorized"] = @ - transaction.amount]

\* a label that names no category given a total of its own, as if the final else
\* wrote to expenditures_by_category[transaction.category]
AddTransactionOwnEntry(totals, transaction) ==
    IF transaction.category \in DOMAIN totals.income
    THEN [totals EXCEPT !.income[transaction.category] = @ + transaction.amount]
    ELSE IF transaction.category \in DOMAIN totals.expenditures
    THEN [totals EXCEPT !.expenditures[transaction.category] = @ - transaction.amount]
    ELSE [totals EXCEPT !.expenditures =
              (transaction.category :> (0 - transaction.amount)) @@ @]

\* the body of the loop over the transactions
AddTransaction(totals, transaction) ==
    IF transaction.category \in DOMAIN totals.income
    THEN [totals EXCEPT !.income[transaction.category] = @ + transaction.amount]
    ELSE IF transaction.category \in DOMAIN totals.expenditures
    THEN [totals EXCEPT !.expenditures[transaction.category] = @ - transaction.amount]
    ELSE [totals EXCEPT !.expenditures["Uncategorized"] = @ - transaction.amount]

\* the loop over transactions.values(), here in the order of the ids
RECURSIVE AddTransactions(_, _, _)
AddTransactions(totals, ledger, ids) ==
    IF ids = {} THEN totals
    ELSE LET id == CHOOSE i \in ids : \A j \in ids : i <= j
         IN AddTransactions(AddTransaction(totals, ledger[id]), ledger, ids \ {id})

\* the two dictionaries left as they were, as if the aggregation were skipped
StaleTotals(income, expenditures, ledger) ==
    [income |-> income, expenditures |-> expenditures]

\* the two dictionaries after calculate_totals_by_category
CalculateTotals(income, expenditures, ledger) ==
    AddTransactions(ResetTotals([income |-> income, expenditures |-> expenditures]),
                    ledger, DOMAIN ledger)

calculate_totals_by_category ==
    \E totals \in {CalculateTotals(income_by_category, expenditures_by_category,
                                   transactions)} :
       /\ income_by_category' = totals.income
       /\ expenditures_by_category' = totals.expenditures

-----------------------------------------------------------------------------
(* The aggregation as a function of the Ledger and of the totals held      *)
(* before: SpecAggregate starts from every Ledger of a bounded family, the *)
(* seed registry and totals left by an earlier aggregation, and applies    *)
(* calculate_totals_by_category.                                           *)

MaxTransactions == 3

\* category labels: an Income category, an expenditure category, the sentinel,
\* and a name that is no category of the registry
LedgerCategories == {"Paycheck", "Groceries", "Uncategorized", "Old Category"}

LedgerAmounts == {"-42.50", "1500.00", "19.99"}

LedgerTransactions(id) ==
    {Transaction(IntToStr(id), "2024-01-05", amount, "SAFEWAY #12", category, "bank.csv") :
        amount \in LedgerAmounts, category \in LedgerCategories}

Ledgers ==
    UNION {{ledger \in [1..n -> UNION {LedgerTransactions(id) : id \in 1..n}] :
               \A id \in 1..n : ledger[id].transaction_num = id} :
           n \in 0..MaxTransactions}

\* totals as an earlier aggregation may have left them
EarlierTotals == {0, 50000}

InitAggregate ==
    /\ budget_categories = category_objects
    /\ \E earlier \in EarlierTotals :
          /\ income_by_category = [InitialIncomeByCategory EXCEPT !["Paycheck"] = earlier]
          /\ expenditures_by_category =
                [InitialExpendituresByCategory EXCEPT !["Groceries"] = earlier,
                                                      !["Uncategorized"] = earlier]
    /\ transactions \in Ledgers
    /\ source_file = "bank.csv"
    /\ transactions_csv = NoFile
    /\ budgets_csv = NoFile
    /\ running = TRUE
    /\ op = NoOp
    /\ ret = "None"

\* a call calculate_totals_by_category()
CalculateTotalsByCategory ==
    /\ calculate_totals_by_category
    /\ op' = [name |-> "calculate_totals_by_category", arg1 |-> "", arg2 |-> ""]
    /\ ret' = "None"
    /\ UNCHANGED <<budget_categories, transactions, source_file, transactions_csv,
                   budgets_csv, running>>

NextAggregate == CalculateTotalsByCategory

SpecAggregate == InitAggregate /\ [][NextAggregate]_vars

-----------------------------------------------------------------------------
(* The two derivations side by side: SpecDerived starts from the seed       *)
(* registry in two dict orders and from the default Ledger or a Ledger of   *)
(* one transaction, and applies categorize_transaction and                  *)
(* calculate_totals_by_category in any order.                               *)

SmallLedgers ==
    {make_transactions_dictionary} \cup {DictOf(transaction) : transaction \in LedgerTransactions(1)}

InitDerived ==
    /\ budget_categories \in SeedOrders
    /\ income_by_category = InitialIncomeByCategory
    /\ expenditures_by_category = InitialExpendituresByCategory
    /\ transactions \in SmallLedgers
    /\ source_file = "bank.csv"
    /\ transactions_csv = NoFile
    /\ budgets_csv = NoFile
    /\ running = TRUE
    /\ op = NoOp
    /\ ret = "None"

NextDerived ==
    \/ \E description \in Descriptions : CategorizeTransaction(description)
    \/ CalculateTotalsByCategory

SpecDerived == InitDerived /\ [][NextDerived]_vars

-----------------------------------------------------------------------------
(* The stored CSV files: update_stored_* writes every field as a string,   *)
(* get_stored_* reads the strings back through the constructors.           *)

\* the keys of a dict of integer keys in insertion order, which for the Ledger is
\* the order of the ids
RECURSIVE IdsInOrder(_)
IdsInOrder(ids) ==
    IF ids = {} THEN <<>>
    ELSE LET id == CHOOSE i \in ids : \A j \in ids : i <= j
         IN <<id>> \o IdsInOrder(ids \ {id})

\* TransactionsManager.update_stored_transactions: the file it writes
\* the row written for a transaction: every field as a string
TransactionRow(transaction) ==
    [transaction_num  |-> IntToStr(transaction.transaction_num),
     transaction_date |-> FormatDateISO(transaction.transaction_date),
     amount           |-> FormatAmount(transaction.amount),
     description      |-> transaction.description,
     category         |-> transaction.category,
     source_file      |-> transaction.source_file]

TransactionRows(ledger, ids) == [k \in 1..Len(ids) |-> TransactionRow(ledger[ids[k]])]

\* TransactionsManager.update_stored_transactions: the file it writes
StoredTransactions(ledger) ==
    [exists |-> TRUE, rows |-> TransactionRows(ledger, IdsInOrder(DOMAIN ledger))]

\* the row written for a category
BudgetRow(category) ==
    [general_classification |-> category.general_classification,
     budget_category        |-> category.budget_category,
     keywords               |-> Join(category.keywords, "|"),
     option_num             |-> IntToStr(category.option_num),
     amt_budgeted           |-> FormatAmount(category.amt_budgeted),
     search_order           |-> IntToStr(category.search_order)]

\* BudgetManager.update_stored_budgets: the file it writes
StoredBudgets(categories) ==
    [exists |-> TRUE, rows |-> [k \in 1..Len(categories) |-> BudgetRow(categories[k])]]

\* the category built from a row of the budgets file
RowBudgetCategory(row) ==
    BudgetCategory(row.general_classification, row.budget_category, row.keywords,
                   row.option_num, row.amt_budgeted, row.search_order)

\* BudgetManager.get_stored_budgets on an existing file: the registry it loads
LoadedBudgets(rows) == [k \in 1..Len(rows) |-> RowBudgetCategory(rows[k])]

\* int(row['transaction_num']) or a Transaction setter raises ValueError
StoredRowRaises(row) ==
    \/ ~ParseInt(row.transaction_num).ok
    \/ TransactionRaises(row.transaction_num, row.transaction_date, row.amount,
                         row.source_file)

\* the Transaction built from a row of the transactions file
StoredRowTransaction(row) ==
    Transaction(row.transaction_num, row.transaction_date, row.amount, row.description,
                row.category, row.source_file)

\* self.transactions[key] = transaction
WithTransaction(ledger, key, transaction) == (key :> transaction) @@ ledger

\* the rows of the transactions file read one by one into the dict; a row whose
\* fields a Transaction setter refuses raises ValueError and ends the reading
RECURSIVE LoadedTransactions(_, _, _)
LoadedTransactions(rows, k, ledger) ==
    IF k > Len(rows) THEN [raised |-> FALSE, ledger |-> ledger]
    ELSE IF StoredRowRaises(rows[k]) THEN [raised |-> TRUE, ledger |-> ledger]
    ELSE LoadedTransactions(rows, k + 1,
             WithTransaction(ledger, ParseInt(rows[k].transaction_num).value,
                             StoredRowTransaction(rows[k])))

\* source_files_in_data: the distinct source_file fields in the order of the rows
AppendIfNew(names, name) ==
    IF \E j \in 1..Len(names) : names[j] = name THEN names ELSE Append(names, name)

RECURSIVE SourceFilesInData(_, _)
SourceFilesInData(rows, k) ==
    IF k = 0 THEN <<>>
    ELSE AppendIfNew(SourceFilesInData(rows, k - 1), rows[k].source_file)

-----------------------------------------------------------------------------
(* TransactionsManager.load_user_transactions *)

\* The bank files in the project folder, as the rows csv.reader yields.
UserFiles ==
    [name \in {"good.csv", "short.csv", "baddate.csv", "badamount.csv",
               "nofields.csv", "blank.csv", "empty.csv"} |->
        CASE name = "good.csv" ->
               << <<"1/5/2024", "-42.50", "*", "", "SAFEWAY #12">>,
                  <<"1/15/2024", "1500.00", "*", "", "PAYROLL DEPOSIT">> >>
          [] name = "short.csv" ->
               << <<"2/29/2024", "-19.99">> >>
          [] name = "baddate.csv" ->
               << <<"1/5/2024", "-42.50", "*", "", "Chewy">>,
                  <<"13/45/2024", "-5.00", "*", "", "Amzn">> >>
          [] name = "badamount.csv" ->
               << <<"1/5/2024", "$42.50", "*", "", "Chewy">> >>
          [] name = "nofields.csv" ->
               << <<"1/5/2024", "-42.50", "*", "", "Chewy">>,
                  <<"1/6/2024">> >>
          [] name = "blank.csv" ->
               << << >> >>
          [] name = "empty.csv" -> << >>]

\* the names process_user_transactions is called with; missing.csv is no file
UserFilenames == DOMAIN UserFiles \cup {"missing.csv"}

\* a row of fewer than 5 fields refused, as if row[4] were read unguarded
FullRowOutcome(row, i, source, date) ==
    IF ~date.ok THEN "ValueError"
    ELSE IF Len(row) < 5 THEN "IndexError"
    ELSE IF TransactionRaises(IntToStr(i), FormatDateISO(date.value), row[2], source)
         THEN "ValueError"
         ELSE "ok"

\* What building the Transaction of row number i does: the arguments are
\* evaluated in order (row[0] and strptime, then row[1]), then the setters run.
DatedRowOutcome(row, i, source, date) ==
    IF ~date.ok THEN "ValueError"
    ELSE IF Len(row) < 2 THEN "IndexError"
    ELSE IF TransactionRaises(IntToStr(i), FormatDateISO(date.value), row[2], source)
         THEN "ValueError"
         ELSE "ok"

RowOutcome(row, i, source) ==
    IF Len(row) < 1 THEN "IndexError"
    ELSE DatedRowOutcome(row, i, source, ParseDateMDY(row[1]))

\* the Transaction built from row number i
RowTransaction(row, i, source) ==
    Transaction(IntToStr(i), FormatDateISO(ParseDateMDY(row[1]).value), row[2],
                IF Len(row) >= 5 THEN row[5] ELSE "", "Uncategorized", source)

\* the loop over enumerate(reader, start=1), filling the dict row by row until a
\* row raises
RECURSIVE LoadRows(_, _, _, _), LoadRow(_, _, _, _, _)
LoadRows(rows, i, ledger, source) ==
    IF i > Len(rows) THEN [outcome |-> "ok", ledger |-> ledger]
    ELSE LoadRow(rows, i, ledger, source, RowOutcome(rows[i], i, source))

\* row number i, given what building its Transaction does
LoadRow(rows, i, ledger, source, outcome) ==
    IF outcome # "ok" THEN [outcome |-> outcome, ledger |-> ledger]
    ELSE LoadRows(rows, i + 1,
                  WithTransaction(ledger, i, RowTransaction(rows[i], i, source)), source)

\* the dict left as it was, as if it were not emptied before the loop
PriorLedger == transactions

EmptyLedger == [id \in {} |-> 0]

\* after the loop: update_stored_transactions and True, or the except clause
AfterLoading(loaded, stored) ==
    IF loaded.outcome = "ok"
    THEN [ret |-> "True", transactions |-> loaded.ledger,
          transactions_csv |-> StoredTransactions(loaded.ledger)]
    ELSE [ret |-> IF loaded.outcome = "IndexError" THEN "False" ELSE "ValueError",
          transactions |-> loaded.ledger, transactions_csv |-> stored]

\* load_user_transactions: what it returns ("True", "False") or raises
\* ("ValueError"), and the Ledger and the stored file it leaves.  The dict is
\* emptied once the file is open; IndexError and FileNotFoundError are caught,
\* the ValueError of strptime or of a Transaction setter is not.
load_user_transactions(source, ledger, stored) ==
    IF source \notin DOMAIN UserFiles
    THEN [ret |-> "False", transactions |-> ledger, transactions_csv |-> stored]
    ELSE AfterLoading(LoadRows(UserFiles[source], 1, EmptyLedger, source), stored)

\* the Ledger with its labels as loaded, as if the loop were not run
LeftAsLoaded(ledger) == ledger

\* FinancialController.categorize_all_transactions
categorize_all_transactions(ledger) ==
    [id \in DOMAIN ledger |->
        [ledger[id] EXCEPT !.category = categorize_transaction(Lower(ledger[id].description))]]

-----------------------------------------------------------------------------
(* The program: FinancialController behind the menu of main().  Each action *)
(* is one menu operation with the input the user types.                     *)

\* FinancialController.__init__ on a first run: neither stored file exists, so
\* both are written from the defaults
Init ==
    /\ budget_categories = category_objects
    /\ income_by_category = InitialIncomeByCategory
    /\ expenditures_by_category = InitialExpendituresByCategory
    /\ transactions = make_transactions_dictionary
    /\ source_file = "sample.csv"
    /\ transactions_csv = StoredTransactions(make_transactions_dictionary)
    /\ budgets_csv = StoredBudgets(category_objects)
    /\ running = TRUE
    /\ op = NoOp
    /\ ret = "None"

\* a BudgetCategory setter raises ValueError on some row of the budgets file
BudgetsRaise(stored) ==
    /\ stored.exists
    /\ \E k \in 1..Len(stored.rows) :
          BudgetCategoryRaises(stored.rows[k].option_num, stored.rows[k].amt_budgeted,
                               stored.rows[k].search_order)

\* The program started again: FinancialController.__init__ builds both managers
\* from the defaults, then get_stored_budgets and get_stored_transactions load the
\* stored files.  source_file becomes the joined source_file fields of the rows;
\* its setter raises ValueError when that is no CSV name.
Restart ==
    \E budgetsRaise \in {BudgetsRaise(budgets_csv)},
       loaded \in {LoadedTransactions(transactions_csv.rows, 1, EmptyLedger)},
       names \in {Join(SourceFilesInData(transactions_csv.rows,
                                         Len(transactions_csv.rows)), ", ")} :
    \E read \in {transactions_csv.exists /\ ~budgetsRaise},
       raised \in {budgetsRaise \/ (transactions_csv.exists
                                    /\ (loaded.raised \/ ~EndsWith(names, ".csv")))} :
       /\ budget_categories' =
             IF budgets_csv.exists /\ ~budgetsRaise THEN LoadedBudgets(budgets_csv.rows)
             ELSE category_objects
       /\ budgets_csv' =
             IF budgets_csv.exists THEN budgets_csv ELSE StoredBudgets(category_objects)
       /\ income_by_category' = InitialIncomeByCategory
       /\ expenditures_by_category' = InitialExpendituresByCategory
       /\ transactions' = IF read THEN loaded.ledger ELSE make_transactions_dictionary
       /\ source_file' = IF read /\ ~raised THEN names ELSE "sample.csv"
       /\ transactions_csv' =
             IF transactions_csv.exists \/ budgetsRaise THEN transactions_csv
             ELSE StoredTransactions(make_transactions_dictionary)
       /\ running' = ~raised
       /\ op' = NoOp
       /\ ret' = IF raised THEN "ValueError" ELSE "None"

\* menu option 1: FinancialController.view_current_budgets
ViewCurrentBudgets ==
    /\ running
    /\ calculate_totals_by_category
    /\ op' = [name |-> "view_current_budgets", arg1 |-> "", arg2 |-> ""]
    /\ ret' = "None"
    /\ UNCHANGED <<budget_categories, transactions, source_file, transactions_csv,
                   budgets_csv, running>>

\* menu option 3: FinancialController.process_user_transactions(user_filename),
\* followed in main() by view_current_budgets when it returned True.  A ValueError
\* that load_user_transactions lets through leaves main().
ProcessUserTransactions(user_filename) ==
    \E loaded \in {load_user_transactions(user_filename, transactions, transactions_csv)} :
    \E categorized \in {categorize_all_transactions(loaded.transactions)} :
    \E totals \in {CalculateTotals(income_by_category, expenditures_by_category,
                                   categorized)} :
       /\ running
       /\ EndsWith(user_filename, ".csv")
       /\ source_file' = user_filename
       /\ transactions' = IF loaded.ret = "True" THEN categorized ELSE loaded.transactions
       /\ transactions_csv' =
             IF loaded.ret = "True" THEN StoredTransactions(categorized)
             ELSE loaded.transactions_csv
       /\ income_by_category' =
             IF loaded.ret = "True" THEN totals.income ELSE income_by_category
       /\ expenditures_by_category' =
             IF loaded.ret = "True" THEN totals.expenditures ELSE expenditures_by_category
       /\ running' = (loaded.ret # "ValueError")
       /\ op' = [name |-> "process_user_transactions", arg1 |-> user_filename, arg2 |-> ""]
       /\ ret' = loaded.ret
       /\ UNCHANGED <<budget_categories, budgets_csv>>

\* the indexes of the categories with the option number typed
OptionsChosen(categories, option_num) ==
    {i \in 1..Len(categories) : categories[i].option_num = option_num}

\* the option number returned in place of the name of the category, as if
\* category.option_num were returned instead of the key
FirstChosenOption(categories, chosen) ==
    IF chosen = {} THEN [kind |-> "None", name |-> ""]
    ELSE [kind |-> "category",
          name |-> IntToStr(categories[CHOOSE i \in chosen : \A j \in chosen : i <= j].option_num)]

\* the first of the chosen categories in dict order, None when there is none
FirstChosen(categories, chosen) ==
    IF chosen = {} THEN [kind |-> "None", name |-> ""]
    ELSE [kind |-> "category",
          name |-> categories[CHOOSE i \in chosen : \A j \in chosen : i <= j].budget_category]

\* the loop over the categories comparing option_num with int(selection); int()
\* raises ValueError, which is caught, at the first category
CategoryWithOption(categories, number) ==
    IF categories # <<>> /\ ~number.ok THEN [kind |-> "None", name |-> ""]
    ELSE FirstChosen(categories, OptionsChosen(categories, number.value))

\* BudgetManager.get_budget_category_to_update: 'q', the name of the category
\* with the option number typed, or None
get_budget_category_to_update(selection) ==
    IF Lower(selection) = "q" THEN [kind |-> "q", name |-> ""]
    ELSE CategoryWithOption(budget_categories, ParseInt(selection))

\* the typed amount as a float, None when float() raises
AmountTyped(number) ==
    IF ~number.ok THEN [kind |-> "None", value |-> 0]
    ELSE [kind |-> "amount", value |-> number.value]

\* BudgetManager.get_new_budget_amt: 'q', the amount typed, or None
get_new_budget_amt(proposed_budget_amount) ==
    IF Lower(proposed_budget_amount) = "q" THEN [kind |-> "q", value |-> 0]
    ELSE AmountTyped(ParseAmount(proposed_budget_amount))

\* the registry reduced to the category named name with its amt_budgeted set, as
\* if the dict were rebuilt from the updated category
OnlyWithBudgetAmount(categories, name, amount) ==
    LET named == SelectSeq(categories, LAMBDA category : category.budget_category = name)
    IN [i \in 1..Len(named) |-> [named[i] EXCEPT !.amt_budgeted = amount]]

\* the registry with the amt_budgeted of the category named name set
WithBudgetAmount(categories, name, amount) ==
    [i \in 1..Len(categories) |->
        IF categories[i].budget_category = name
        THEN [categories[i] EXCEPT !.amt_budgeted = amount]
        ELSE categories[i]]

\* what one pass of the loop in update_budget_amount prints or does
UpdateOutcome(category_to_update, new_budget_amt) ==
    IF category_to_update.kind = "None" THEN "Invalid option"
    ELSE IF category_to_update.kind = "q" THEN "q"
    ELSE IF new_budget_amt.kind = "None" \/
            (new_budget_amt.kind = "amount" /\ new_budget_amt.value = 0)
         THEN "Invalid entry"
    ELSE IF new_budget_amt.kind = "q" THEN "other category"
    ELSE IF new_budget_amt.value < 0 THEN "Budget amount must be 0.00 or greater"
    ELSE "updated"

\* menu option 2: view_current_budgets, then one pass of
\* BudgetManager.update_budget_amount with a category selection and an amount
\* entry.  `if not new_budget_amt` sends None and 0.0 alike to 'Invalid entry'.
UpdateBudgetAmount(selection, proposed_budget_amount) ==
    \E category_to_update \in {get_budget_category_to_update(selection)},
       new_budget_amt \in {get_new_budget_amt(proposed_budget_amount)} :
    \E outcome \in {UpdateOutcome(category_to_update, new_budget_amt)},
       updated \in {WithBudgetAmount(budget_categories, category_to_update.name,
                                     new_budget_amt.value)} :
       /\ running
       /\ calculate_totals_by_category
       /\ budget_categories' = IF outcome = "updated" THEN updated ELSE budget_categories
       /\ budgets_csv' = IF outcome = "updated" THEN StoredBudgets(updated) ELSE budgets_csv
       /\ op' = [name |-> "update_budget_amount", arg1 |-> selection,
                 arg2 |-> proposed_budget_amount]
       /\ ret' = outcome
       /\ UNCHANGED <<transactions, source_file, transactions_csv, running>>

\* int(selection) whether or not it is a key of the Ledger, as if the membership
\* test were missing
TransactionWithAnyId(ledger, number) ==
    IF ~number.ok THEN [kind |-> "None", id |-> 0]
    ELSE [kind |-> "id", id |-> number.value]

\* the last key of the Ledger for every number that is a key, as if the loop
\* variable of a search were returned instead of the selection
TransactionWithLastId(ledger, number) ==
    IF ~number.ok \/ number.value \notin DOMAIN ledger THEN [kind |-> "None", id |-> 0]
    ELSE [kind |-> "id", id |-> CHOOSE id \in DOMAIN ledger : \A other \in DOMAIN ledger : other <= id]

\* int(selection) when it is a key of the Ledger, None otherwise
TransactionWithId(ledger, number) ==
    IF ~number.ok \/ number.value \notin DOMAIN ledger THEN [kind |-> "None", id |-> 0]
    ELSE [kind |-> "id", id |-> number.value]

\* TransactionsManager.get_transaction_to_update: 'q', the id typed when it is in
\* the Ledger, or None
get_transaction_to_update(selection) ==
    IF Lower(selection) = "q" THEN [kind |-> "q", id |-> 0]
    ELSE TransactionWithId(transactions, ParseInt(selection))

\* what one pass of the loop in recategorize_transactions prints or does
RecategorizeOutcome(transaction_to_update, new_category) ==
    IF transaction_to_update.kind = "None" \/
       (transaction_to_update.kind = "id" /\ transaction_to_update.id = 0)
    THEN "Invalid transaction number"
    ELSE IF transaction_to_update.kind = "q" THEN "q"
    ELSE IF new_category.kind = "None" THEN "Please select from the available categories"
    ELSE IF new_category.kind = "q" THEN "other transaction"
    ELSE "recategorized"

\* menu option 6: one pass of FinancialController.recategorize_transactions with
\* a transaction selection and a category selection.  `if not
\* transaction_to_update` sends None and the id 0 alike to 'Invalid transaction
\* number'.
RecategorizeTransaction(selection, category_selection) ==
    \E transaction_to_update \in {get_transaction_to_update(selection)},
       new_category \in {get_budget_category_to_update(category_selection)} :
    \E outcome \in {RecategorizeOutcome(transaction_to_update, new_category)} :
    \E updated \in {IF outcome = "recategorized"
                    THEN [transactions EXCEPT ![transaction_to_update.id].category =
                                                  new_category.name]
                    ELSE transactions} :
    \E totals \in {CalculateTotals(income_by_category, expenditures_by_category,
                                   updated)} :
       /\ running
       /\ transactions' = IF outcome = "recategorized" THEN updated ELSE transactions
       /\ transactions_csv' =
             IF outcome = "recategorized" THEN StoredTransactions(updated)
             ELSE transactions_csv
       /\ income_by_category' =
             IF outcome = "recategorized" THEN totals.income ELSE income_by_category
       /\ expenditures_by_category' =
             IF outcome = "recategorized" THEN totals.expenditures
             ELSE expenditures_by_category
       /\ op' = [name |-> "recategorize_transactions", arg1 |-> selection,
                 arg2 |-> category_selection]
       /\ ret' = outcome
       /\ UNCHANGED <<budget_categories, source_file, budgets_csv, running>>

\* what the user types at the prompts
BudgetSelections == {"7", "x", "q"}

AmountEntries == {"250.00", "0", "-5", "abc", "nan", "q"}

TransactionSelections == {"1", "0", "9", "q"}

CategorySelections == {"1", "7", "x", "q"}

Next ==
    \/ Restart
    \/ ViewCurrentBudgets
    \/ \E user_filename \in UserFilenames : ProcessUserTransactions(user_filename)
    \/ \E selection \in BudgetSelections, amount \in AmountEntries :
          UpdateBudgetAmount(selection, amount)
    \/ \E selection \in TransactionSelections, category \in CategorySelections :
          RecategorizeTransaction(selection, category)

Spec == Init /\ [][Next]_vars

-----------------------------------------------------------------------------
(* The program started in a directory that already holds a budgets file:    *)
(* SpecStored starts from every file of a bounded family, the file the      *)
(* program writes on a first run and that file with a row added, a row      *)
(* removed or a row reclassified.                                           *)

SeedBudgetRows == StoredBudgets(category_objects).rows

SideJobRow ==
    [general_classification |-> "Income", budget_category |-> "Side Job",
     keywords |-> "chewy", option_num |-> "21", amt_budgeted |-> "0.00",
     search_order |-> "0"]

\* the row of the category named name written as an Income category
AsIncomeRow(rows, name) ==
    [k \in 1..Len(rows) |->
        IF rows[k].budget_category = name
        THEN [rows[k] EXCEPT !.general_classification = "Income"]
        ELSE rows[k]]

BudgetFiles ==
    {[exists |-> TRUE, rows |-> rows] :
        rows \in {SeedBudgetRows,
                  Append(SeedBudgetRows, SideJobRow),
                  SubSeq(SeedBudgetRows, 1, Len(SeedBudgetRows) - 1),
                  AsIncomeRow(SeedBudgetRows, "Groceries")}}

\* FinancialController.__init__ with a budgets file and no transactions file:
\* BudgetManager.__init__ builds the totals from the seed, get_stored_budgets
\* then replaces budget_categories by the categories of the file
InitStored ==
    /\ budgets_csv \in BudgetFiles
    /\ budget_categories = LoadedBudgets(budgets_csv.rows)
    /\ income_by_category = InitialIncomeByCategory
    /\ expenditures_by_category = InitialExpendituresByCategory
    /\ transactions = make_transactions_dictionary
    /\ source_file = "sample.csv"
    /\ transactions_csv = StoredTransactions(make_transactions_dictionary)
    /\ running = TRUE
    /\ op = NoOp
    /\ ret = "None"

NextStored ==
    \/ Restart
    \/ ViewCurrentBudgets
    \/ \E user_filename \in UserFilenames : ProcessUserTransactions(user_filename)

SpecStored == InitStored /\ [][NextStored]_vars

-----------------------------------------------------------------------------
(* Claims about the classifier, checked under SpecClassify *)

Classified == op.name = "categorize_transaction"

\* str.upper() on the letters, to write a description or keyword in another case
UpperChar(c) ==
    IF \E u \in DOMAIN LowerCase : LowerCase[u] = c
    THEN CHOOSE u \in DOMAIN LowerCase : LowerCase[u] = c
    ELSE c

RECURSIVE Upper(_)
Upper(s) ==
    IF s = "" THEN "" ELSE UpperChar(Char(s, 1)) \o Upper(SubSeq(s, 2, Len(s)))

\* the description contains a keyword of the category, letter case set aside
HasKeywordIn(category, description) ==
    \E k \in 1..Len(category.keywords) :
        In(Lower(category.keywords[k]), Lower(description))

\* the positions in the registry of the categories with a keyword in the description
MatchingCategories(description) ==
    {i \in 1..Len(budget_categories) : HasKeywordIn(budget_categories[i], description)}

\* C3: when categories A and B both have a keyword in the description and A's
\* priority value is smaller, the result is never B; and the category whose priority
\* value is smaller than that of every other matching category is the result,
\* whatever the order of the keywords and of the categories in the registry.
C3_LowestPriorityWins ==
    Classified =>
        LET M == MatchingCategories(op.arg1) IN
        /\ \A a, b \in M :
              budget_categories[a].search_order < budget_categories[b].search_order
                 => ret # budget_categories[b].budget_category
        /\ \A a \in M :
              (\A b \in M \ {a} :
                  budget_categories[a].search_order < budget_categories[b].search_order)
                 => ret = budget_categories[a].budget_category

\* two categories match, the one of smaller priority value comes later in the
\* registry, and it is the result
C3_Witness ==
    /\ Classified
    /\ \E a, b \in MatchingCategories(op.arg1) :
          /\ b < a
          /\ budget_categories[a].search_order < budget_categories[b].search_order
          /\ ret = budget_categories[a].budget_category

\* C4: the result is "Uncategorized" exactly when no keyword of any category of
\* the registry occurs in the description.
C4_UncategorizedIffNoKeyword ==
    Classified => (ret = "Uncategorized" <=> MatchingCategories(op.arg1) = {})

\* a non-empty description classified against two categories, none of which matches
C4_Witness ==
    /\ Classified
    /\ op.arg1 # ""
    /\ Len(budget_categories) >= 2
    /\ ret = "Uncategorized"

\* C5: a category created from an empty keyword string is never the result.
C5_EmptyKeywordsNeverMatch ==
    Classified =>
        \A i \in 1..Len(budget_categories) :
            budget_categories[i].keywords = Split("", "|")
               => ret # budget_categories[i].budget_category

\* C6: the empty description is classified "Uncategorized" in every registry.
C6_EmptyDescriptionUncategorized ==
    (Classified /\ op.arg1 = "") => ret = "Uncategorized"

\* the registry with every keyword rewritten by a change of letter case
WithKeywords(categories, Recase(_)) ==
    [i \in 1..Len(categories) |->
        [categories[i] EXCEPT !.keywords =
            [k \in 1..Len(categories[i].keywords) |-> Recase(categories[i].keywords[k])]]]

\* C7: the result is the same for the description written in lower or upper case,
\* and for the keywords stored in lower or upper case.
C7_CaseInsensitive ==
    Classified =>
        /\ Categorize(budget_categories, Lower(op.arg1)) = ret
        /\ Categorize(budget_categories, Upper(op.arg1)) = ret
        /\ Categorize(WithKeywords(budget_categories, Lower), op.arg1) = ret
        /\ Categorize(WithKeywords(budget_categories, Upper), op.arg1) = ret

\* a description with capitals matched by a keyword stored with capitals, in a
\* case different from the description's
C7_Witness ==
    /\ Classified
    /\ op.arg1 # Lower(op.arg1)
    /\ \E i \in 1..Len(budget_categories) :
          /\ ret = budget_categories[i].budget_category
          /\ \E k \in 1..Len(budget_categories[i].keywords) :
                LET kw == budget_categories[i].keywords[k] IN
                /\ kw # Lower(kw)
                /\ ~In(kw, op.arg1)
                /\ In(Lower(kw), Lower(op.arg1))
          /\ \A j \in MatchingCategories(op.arg1) : j = i

-----------------------------------------------------------------------------
(* Claims about the classifier on the seed registry, checked under SpecSeed *)

\* the category of the registry named name
CategoryNamed(name) == budget_categories[PositionOf(budget_categories, name)]

\* C21: with the seed registry Pet Care has a smaller search_order than Medical
\* and than every Shopping category, and Other Shopping a greater search_order
\* than every other category; so the result is never Medical or a Shopping
\* category when a keyword of Pet Care is in the description, and is Other
\* Shopping only when no keyword of another category is in the description:
\* 'animal hospital' gives Pet Care, 'grocery outlet' Groceries and 'amazon
\* prime video' Entertainment.
C21_SeedPriorities ==
    /\ CategoryNamed("Pet Care").search_order < CategoryNamed("Medical").search_order
    /\ \A i \in 1..Len(budget_categories) :
          /\ budget_categories[i].general_classification = "Shopping" =>
                CategoryNamed("Pet Care").search_order < budget_categories[i].search_order
          /\ budget_categories[i].budget_category # "Other Shopping" =>
                budget_categories[i].search_order
                   < CategoryNamed("Other Shopping").search_order
    /\ Classified =>
          /\ HasKeywordIn(CategoryNamed("Pet Care"), op.arg1) =>
                /\ ret # "Medical"
                /\ CategoryNamed(ret).general_classification # "Shopping"
          /\ ret = "Other Shopping" =>
                \A i \in 1..Len(budget_categories) :
                   budget_categories[i].budget_category # "Other Shopping" =>
                      ~HasKeywordIn(budget_categories[i], op.arg1)
          /\ op.arg1 = "animal hospital" => ret = "Pet Care"
          /\ op.arg1 = "grocery outlet" => ret = "Groceries"
          /\ op.arg1 = "amazon prime video" => ret = "Entertainment"

\* 'amazon prime video' on the seed registry: keywords of Other Shopping
\* ('amazon') and of Entertainment ('video') are in it, and the result is
\* Entertainment
C21_Witness ==
    /\ Classified
    /\ budget_categories = category_objects
    /\ op.arg1 = "amazon prime video"
    /\ HasKeywordIn(CategoryNamed("Other Shopping"), op.arg1)
    /\ HasKeywordIn(CategoryNamed("Entertainment"), op.arg1)
    /\ ret = "Entertainment"

\* the positions of the matching categories of the smallest search_order
LowestMatching(description) ==
    {i \in MatchingCategories(description) :
        \A j \in MatchingCategories(description) :
           budget_categories[i].search_order <= budget_categories[j].search_order}

\* C29: when two or more categories of the same search_order have a keyword in
\* the description and no category of smaller search_order has one, the result
\* is the one of them that comes first in the dict order of the registry.
C29_TieGoesToFirstInserted ==
    (Classified /\ Cardinality(LowestMatching(op.arg1)) >= 2) =>
        \E i \in LowestMatching(op.arg1) :
           /\ \A j \in LowestMatching(op.arg1) : i <= j
           /\ ret = budget_categories[i].budget_category

\* 'hospital salon' on the seed registry: Medical and Self Care, both of
\* search_order 17, have a keyword in it and no other category has; Medical,
\* inserted first, is the result
C29_Witness ==
    /\ Classified
    /\ budget_categories = category_objects
    /\ op.arg1 = "hospital salon"
    /\ LowestMatching(op.arg1)
          = {PositionOf(budget_categories, "Medical"),
             PositionOf(budget_categories, "Self Care")}
    /\ PositionOf(budget_categories, "Medical") < PositionOf(budget_categories, "Self Care")
    /\ ret = "Medical"

-----------------------------------------------------------------------------
(* Claims about the aggregation, checked under SpecAggregate *)

Aggregated == op.name = "calculate_totals_by_category"

RECURSIVE SumOf(_, _)
SumOf(f, S) ==
    IF S = {} THEN 0
    ELSE LET x == CHOOSE y \in S : TRUE IN f[x] + SumOf(f, S \ {x})

\* the sum of the amounts of the transactions whose ids are in ids
AmountOf(ids) == SumOf([id \in DOMAIN transactions |-> transactions[id].amount], ids)

\* the name of a category of the registry classified Income
IsIncomeCategoryName(name) ==
    \E i \in 1..Len(budget_categories) :
        /\ budget_categories[i].budget_category = name
        /\ budget_categories[i].general_classification = "Income"

\* C8: once calculate_totals_by_category has run, running it again on the same
\* Ledger and registry leaves both totals dictionaries as they are, whatever they
\* held before the first run.
C8_AggregationIdempotent ==
    Aggregated =>
        LET again == CalculateTotals(income_by_category, expenditures_by_category,
                                     transactions)
        IN /\ again.income = income_by_category
           /\ again.expenditures = expenditures_by_category

\* an aggregation of a Ledger that yields totals other than zero
C8_Witness ==
    /\ Aggregated
    /\ income_by_category["Paycheck"] # 0
    /\ expenditures_by_category["Groceries"] # 0
    /\ expenditures_by_category["Uncategorized"] # 0

LabelledWith(names) == {id \in DOMAIN transactions : transactions[id].category \in names}

\* the Ledger without the transactions whose ids are in ids
LedgerWithout(ids) == [id \in DOMAIN transactions \ ids |-> transactions[id]]

-----------------------------------------------------------------------------
(* Claims about the totals of a stored registry, checked under SpecStored *)

\* C13: in every state the keys of income_by_category are the names of the
\* Income categories of the current registry, and the keys of
\* expenditures_by_category are the names of its other categories and
\* "Uncategorized".
C13_TotalsKeysFollowRegistry ==
    /\ DOMAIN income_by_category = IncomeNames(budget_categories)
    /\ DOMAIN expenditures_by_category
          = ExpenditureNames(budget_categories) \cup {"Uncategorized"}

-----------------------------------------------------------------------------
(* Claims about the import, checked under Spec *)

\* a record of a batch that is structurally invalid: it lacks one of its first
\* two fields, or its date or its amount cannot be parsed
InvalidRecord(row) ==
    \/ Len(row) < 2
    \/ ~ParseDateMDY(row[1]).ok
    \/ ~ParseAmount(row[2]).ok

\* the last operation was the import of a batch with an invalid record
ImportedInvalidBatch(operation) ==
    /\ operation.name = "process_user_transactions"
    /\ operation.arg1 \in DOMAIN UserFiles
    /\ \E k \in 1..Len(UserFiles[operation.arg1]) :
          InvalidRecord(UserFiles[operation.arg1][k])

\* C1: the import of a batch with a structurally invalid record leaves the Ledger
\* exactly as it was before the attempt.
C1_FailedImportKeepsLedger ==
    [][ImportedInvalidBatch(op') => transactions' = transactions]_vars

\* C2: the import of a batch with a structurally invalid record returns False to
\* the caller; it never raises an error out of the operation.
C2_InvalidBatchReturnsFalse ==
    ImportedInvalidBatch(op) => ret = "False"

Imported == op.name = "process_user_transactions" /\ op.arg1 \in DOMAIN UserFiles

\* the records of the file the last import read
ImportedRecords == UserFiles[op.arg1]

\* C14: after an import that returned True the Ledger holds the ids 1..n for the
\* n records of the file and nothing else, and the transaction with id i has
\* the date, the amount and the description (the fifth field, if any) of record
\* i and the name of the file as its source.
C14_ImportReplacesLedger ==
    (Imported /\ ret = "True") =>
        /\ DOMAIN transactions = 1..Len(ImportedRecords)
        /\ \A i \in 1..Len(ImportedRecords) :
              /\ transactions[i].transaction_num = i
              /\ transactions[i].transaction_date = ParseDateMDY(ImportedRecords[i][1]).value
              /\ transactions[i].amount = ParseAmount(ImportedRecords[i][2]).value
              /\ transactions[i].description
                    = IF Len(ImportedRecords[i]) >= 5 THEN ImportedRecords[i][5] ELSE ""
              /\ transactions[i].source_file = op.arg1

\* the one record of short.csv imported: the Ledger holds id 1 only, neither the
\* sample transaction 0 nor the second transaction of an earlier batch
C14_Witness ==
    /\ Imported /\ op.arg1 = "short.csv" /\ ret = "True"
    /\ DOMAIN transactions = {1}
    /\ transactions[1].amount = -1999
    /\ transactions[1].transaction_date = <<2024, 2, 29>>

\* a record with its first two fields, a valid date and a valid amount
ValidShortRecord(row) ==
    /\ Len(row) >= 2
    /\ ParseDateMDY(row[1]).ok
    /\ ParseAmount(row[2]).ok

\* a record without its first or second field, the date valid if present
LacksDateOrAmount(row) == Len(row) < 2 /\ (Len(row) = 1 => ParseDateMDY(row[1]).ok)

\* C15: an import whose records all have a valid date and a valid amount returns
\* True, the records of fewer than 5 fields giving transactions with an empty
\* description; an import whose records are of that kind except for some that
\* lack the first or the second field returns False.
C15_ShortRecords ==
    Imported =>
        /\ (\A k \in 1..Len(ImportedRecords) : ValidShortRecord(ImportedRecords[k])) =>
              /\ ret = "True"
              /\ \A k \in 1..Len(ImportedRecords) :
                    Len(ImportedRecords[k]) < 5 => transactions[k].description = ""
        /\ (/\ \A k \in 1..Len(ImportedRecords) :
                  ValidShortRecord(ImportedRecords[k]) \/ LacksDateOrAmount(ImportedRecords[k])
            /\ \E k \in 1..Len(ImportedRecords) : LacksDateOrAmount(ImportedRecords[k])) =>
              ret = "False"

\* the two-field record of short.csv accepted with an empty description
C15_Witness ==
    /\ Imported /\ op.arg1 = "short.csv"
    /\ Len(ImportedRecords[1]) = 2
    /\ ret = "True"
    /\ transactions[1].description = ""

-----------------------------------------------------------------------------
(* Claims about the budget amounts, checked under Spec *)

\* the last operation was a pass of update_budget_amount
UpdatedBudget == op.name = "update_budget_amount"

\* an amount that is a number and is 0 or more
NonNegativeAmount(amount) == amount # NaN /\ amount >= 0

\* a decimal numeral: an optional sign, then digits with at most one point
IsNumeral(s) ==
    /\ \E k \in 1..Len(Unsigned(s)) : IsDigit(Char(Unsigned(s), k))
    /\ \A k \in 1..Len(Unsigned(s)) :
          IsDigit(Char(Unsigned(s), k)) \/ Char(Unsigned(s), k) = "."
    /\ Cardinality({k \in 1..Len(Unsigned(s)) : Char(Unsigned(s), k) = "."}) <= 1

\* an entry at the amount prompt, other than 'q', that is no number or is a
\* number below 0
NegativeOrNonNumeric(s) ==
    /\ Lower(s) # "q"
    /\ IsNumeral(s) => ParseAmount(s).value < 0

\* a pass that selects a category and enters a negative or non-numeric amount
\* is rejected and leaves the registry and its stored file as they were
RejectsBadAmount ==
    (/\ op'.name = "update_budget_amount"
     /\ get_budget_category_to_update(op'.arg1).kind = "category"
     /\ NegativeOrNonNumeric(op'.arg2)) =>
        /\ ret' \in {"Invalid entry", "Budget amount must be 0.00 or greater"}
        /\ budget_categories' = budget_categories
        /\ budgets_csv' = budgets_csv

\* C16: an update of a target amount with a negative or non-numeric amount is
\* rejected and changes nothing in the registry, and the amt_budgeted of every
\* category is a number that is 0 or more in every state.
C16_BudgetAmountsNonNegative ==
    /\ [](\A i \in 1..Len(budget_categories) :
             NonNegativeAmount(budget_categories[i].amt_budgeted))
    /\ [][RejectsBadAmount]_vars

\* a pass that selects a category and enters the amount 0 sets the amt_budgeted
\* of that category to 0 and stores the registry
AcceptsZero ==
    (/\ op'.name = "update_budget_amount"
     /\ get_budget_category_to_update(op'.arg1).kind = "category"
     /\ IsNumeral(op'.arg2)
     /\ ParseAmount(op'.arg2).value = 0) =>
        /\ ret' = "updated"
        /\ \A i \in 1..Len(budget_categories') :
              budget_categories'[i].budget_category
                    = get_budget_category_to_update(op'.arg1).name
                 => budget_categories'[i].amt_budgeted = 0
        /\ budgets_csv' = StoredBudgets(budget_categories')

\* C17: when the user selects a category and enters 0 in update_budget_amount,
\* the target amount of that category becomes 0 and the update is stored, as for
\* any other amount that is 0 or more.
C17_ZeroIsAcceptedUpdate == [][AcceptsZero]_vars

-----------------------------------------------------------------------------
(* Claims about re-categorization and the ids, checked under Spec *)

\* the selection typed at the transaction prompt is a number
TypedId(selection) == Lower(selection) # "q" /\ ParseInt(selection).ok

\* a pass of recategorize_transactions with a number that is no id of the Ledger
\* prints 'Invalid transaction number' and changes nothing
RejectsUnknownId ==
    (/\ op'.name = "recategorize_transactions"
     /\ TypedId(op'.arg1)
     /\ ParseInt(op'.arg1).value \notin DOMAIN transactions) =>
        /\ ret' = "Invalid transaction number"
        /\ UNCHANGED <<transactions, income_by_category, expenditures_by_category,
                       budget_categories, source_file, transactions_csv, budgets_csv>>

\* C18: re-categorization with a transaction id that is not in the Ledger gives
\* the invalid-id result and changes no transaction, no totals and no stored
\* file.
C18_UnknownIdRejected == [][RejectsUnknownId]_vars

\* the id 9, which no Ledger of two transactions holds, typed after an import
\* and refused
C18_Witness ==
    /\ op.name = "recategorize_transactions"
    /\ op.arg1 = "9" /\ op.arg2 = "7"
    /\ DOMAIN transactions = {1, 2}
    /\ ret = "Invalid transaction number"

\* the name of the category with the option number typed, "" when there is none
SelectedCategoryName(selection) ==
    IF \E i \in 1..Len(budget_categories) :
          budget_categories[i].option_num = ParseInt(selection).value
    THEN budget_categories[CHOOSE i \in 1..Len(budget_categories) :
            budget_categories[i].option_num = ParseInt(selection).value].budget_category
    ELSE ""

\* a pass of recategorize_transactions with an id of the Ledger and the option
\* number of a category labels that transaction with that category
RecategorizesKnownId ==
    (/\ op'.name = "recategorize_transactions"
     /\ TypedId(op'.arg1)
     /\ ParseInt(op'.arg1).value \in DOMAIN transactions
     /\ TypedId(op'.arg2)
     /\ SelectedCategoryName(op'.arg2) # "") =>
        /\ ret' # "Invalid transaction number"
        /\ DOMAIN transactions' = DOMAIN transactions
        /\ transactions'[ParseInt(op'.arg1).value].category = SelectedCategoryName(op'.arg2)

\* C19: for every id of the Ledger, the id of the default sample transaction
\* included, and every category selected by its option number,
\* recategorize_transactions sets the category of that transaction to the name
\* of the selected category; no id of the Ledger is refused as invalid.
C19_EveryKnownIdRecategorized == [][RecategorizesKnownId]_vars

\* C20: in every state every id of the Ledger and every option number of the
\* registry is at least 1, every transaction is stored under its own id, and no
\* two categories have the same option number.
C20_IdsAndOptionsFromOne ==
    /\ \A id \in DOMAIN transactions :
          id >= 1 /\ transactions[id].transaction_num = id
    /\ \A i \in 1..Len(budget_categories) : budget_categories[i].option_num >= 1
    /\ \A i, j \in 1..Len(budget_categories) :
          i # j => budget_categories[i].option_num # budget_categories[j].option_num

-----------------------------------------------------------------------------
(* Claims about what the operations leave unchanged, checked under Spec *)

\* a category without its target amount
WithoutAmount(category) == [category EXCEPT !.amt_budgeted = 0]

\* C22: after any sequence of target-amount updates, imports (with their
\* classification and aggregation), views and re-categorizations the registry
\* holds the categories it held at first, in the same order, each with the same
\* name, classification, keywords, option number and search_order; only the
\* target amounts may differ.
C22_RegistryStructureStable ==
    /\ Len(budget_categories) = Len(category_objects)
    /\ \A i \in 1..Len(category_objects) :
          WithoutAmount(budget_categories[i]) = WithoutAmount(category_objects[i])

\* the target amount of Groceries updated to 250.00 after an import and a
\* re-categorization: the other fields and the other categories are as at first
C22_Witness ==
    /\ \E i \in 1..Len(budget_categories) :
          /\ budget_categories[i].budget_category = "Groceries"
          /\ budget_categories[i].amt_budgeted = 25000
          /\ category_objects[i].amt_budgeted = 0
    /\ op.name = "recategorize_transactions" /\ ret = "recategorized"
    /\ source_file = "good.csv"

\* a successful pass of recategorize_transactions leaves the set of ids as it
\* was, changes no field other than category of the transaction selected, and
\* no field at all of the other transactions
RecategorizationChangesCategoryOnly ==
    (op'.name = "recategorize_transactions" /\ ret' = "recategorized") =>
        /\ DOMAIN transactions' = DOMAIN transactions
        /\ \A id \in DOMAIN transactions :
              IF id = ParseInt(op'.arg1).value
              THEN [transactions'[id] EXCEPT !.category = transactions[id].category]
                      = transactions[id]
              ELSE transactions'[id] = transactions[id]

\* C23: a successful re-categorization of transaction t changes only the
\* category of t: its id, date, amount, description and source, every field of
\* every other transaction and the set of ids are unchanged.
C23_RecategorizationFrame == [][RecategorizationChangesCategoryOnly]_vars

\* transaction 1 of the two of good.csv re-categorized as Paycheck (option 1):
\* its description and amount are those of the record, and transaction 2 is there
C23_Witness ==
    /\ op.name = "recategorize_transactions" /\ ret = "recategorized"
    /\ op.arg1 = "1" /\ op.arg2 = "1"
    /\ DOMAIN transactions = {1, 2}
    /\ transactions[1].category = "Paycheck"
    /\ transactions[1].description = "SAFEWAY #12"
    /\ transactions[1].amount = -4250
    /\ transactions[2].description = "PAYROLL DEPOSIT"

\* the totals were shown to the user by the last operation: view_current_budgets
\* (menu options 1 and 2, and 3 after a successful import), the table printed
\* after a target update, and the table printed after a re-categorization
Presented ==
    \/ op.name \in {"view_current_budgets", "update_budget_amount"}
    \/ op.name = "process_user_transactions" /\ ret = "True"
    \/ op.name = "recategorize_transactions" /\ ret = "recategorized"

\* C24: whenever the totals are shown, every income total is the sum of the
\* amounts of the transactions of the current Ledger labelled with that
\* category, every expenditure total the negated sum for its category, and the
\* Uncategorized total the negated sum of the transactions labelled with no
\* category of the totals.
C24_PresentedTotalsFresh ==
    Presented =>
        /\ \A name \in DOMAIN income_by_category :
              income_by_category[name] = AmountOf(LabelledWith({name}))
        /\ \A name \in DOMAIN expenditures_by_category \ {"Uncategorized"} :
              expenditures_by_category[name] = -AmountOf(LabelledWith({name}))
        /\ expenditures_by_category["Uncategorized"]
              = -AmountOf(DOMAIN transactions
                          \ LabelledWith((DOMAIN income_by_category
                                          \cup DOMAIN expenditures_by_category)
                                         \ {"Uncategorized"}))

\* budgets viewed after the failed import of nofields.csv, which left its first
\* record in the Ledger: the 42.50 of that record is the Uncategorized total
C24_Witness ==
    /\ op.name = "view_current_budgets"
    /\ source_file = "nofields.csv"
    /\ DOMAIN transactions = {1}
    /\ transactions[1].amount = -4250
    /\ expenditures_by_category["Uncategorized"] = 4250

-----------------------------------------------------------------------------
(* Claims about the labels of the transactions, checked under Spec *)

\* C25: after process_user_transactions returned True the category of every
\* transaction of the Ledger is what categorize_transaction gives for its
\* description with the registry of that moment, which the import does not
\* change.
C25_ImportClassifiesEveryTransaction ==
    (Imported /\ ret = "True") =>
        \A id \in DOMAIN transactions :
           transactions[id].category
              = Categorize(budget_categories, transactions[id].description)

\* good.csv imported: the SAFEWAY record is labelled Groceries and the PAYROLL
\* record Paycheck
C25_Witness ==
    /\ Imported /\ op.arg1 = "good.csv" /\ ret = "True"
    /\ transactions[1].description = "SAFEWAY #12"
    /\ transactions[1].category = "Groceries"
    /\ transactions[2].description = "PAYROLL DEPOSIT"
    /\ transactions[2].category = "Paycheck"

\* C26: in every state reached from the default Ledger the category of every
\* transaction is "Uncategorized" or the name of a category of the registry.
C26_LabelsNameCategories ==
    \A id \in DOMAIN transactions :
       transactions[id].category \in {"Uncategorized"} \cup CategoryNames(budget_categories)

\* a transaction of an imported batch that was classified as Uncategorized and
\* then re-categorized by the option number 7, the one of Groceries
C26_Witness ==
    /\ op.name = "recategorize_transactions" /\ ret = "recategorized"
    /\ op.arg1 = "1" /\ op.arg2 = "7"
    /\ source_file = "short.csv"
    /\ transactions[1].description = ""
    /\ transactions[1].category = "Groceries"

-----------------------------------------------------------------------------
(* Claims about the stored Ledger and its source name, checked under Spec *)

\* the last operation wrote the transactions file from the Ledger
StoredLedger ==
    \/ Imported /\ ret = "True"
    \/ op.name = "recategorize_transactions" /\ ret = "recategorized"

\* C27: after every successful import, one of no record included, and after
\* every re-categorization, get_stored_transactions on the file just written
\* raises nothing (no setter refuses a row, and the joined source names are a
\* CSV name) and gives a Ledger with the same ids and the same transactions.
C27_StoredLedgerRoundTrip ==
    StoredLedger =>
        /\ transactions_csv.exists
        /\ ~LoadedTransactions(transactions_csv.rows, 1, EmptyLedger).raised
        /\ EndsWith(Join(SourceFilesInData(transactions_csv.rows,
                                           Len(transactions_csv.rows)), ", "), ".csv")
        /\ LoadedTransactions(transactions_csv.rows, 1, EmptyLedger).ledger = transactions

\* a failed import leaves the source_file of the TransactionsManager as it was
FailedImportKeepsSource ==
    (op'.name = "process_user_transactions" /\ ret' = "False") =>
        source_file' = source_file

\* C28: when process_user_transactions returns False, source_file is what it
\* was before the call.
C28_FailedImportKeepsSourceFile == [][FailedImportKeepsSource]_vars

-----------------------------------------------------------------------------
(* Claims about the derivations, checked under SpecDerived *)

\* a call of categorize_transaction leaves the registry, its order included,
\* and the Ledger as they were; a call of calculate_totals_by_category leaves
\* the Ledger, the registry and the stored files as they were
DerivationsReadOnly ==
    /\ op'.name = "categorize_transaction" =>
          /\ budget_categories' = budget_categories
          /\ transactions' = transactions
    /\ op'.name = "calculate_totals_by_category" =>
          /\ budget_categories' = budget_categories
          /\ transactions' = transactions
          /\ UNCHANGED <<source_file, transactions_csv, budgets_csv>>

\* C30: categorize_transaction changes neither the registry, in content or in
\* order, nor the Ledger, and calculate_totals_by_category changes neither the
\* Ledger nor the registry: of the state only the two totals dictionaries change.
C30_DerivationsReadOnly == [][DerivationsReadOnly]_vars

\* the totals computed for a Ledger of one Groceries transaction of -42.50: the
\* Groceries total is 42.50 and the registry is the seed in its dict order,
\* which is not its order by search_order
C30_Witness ==
    /\ op.name = "calculate_totals_by_category"
    /\ budget_categories = category_objects
    /\ SortedBySearchOrder(budget_categories) # budget_categories
    /\ DOMAIN transactions = {1}
    /\ transactions[1].category = "Groceries"
    /\ transactions[1].amount = -4250
    /\ expenditures_by_category["Groceries"] = 4250

=============================================================================
